---- MODULE Spec2Model ----
(***************************************************************************)
(* Tatlin: the Scene (tatlin/lib/gl/scene.py) and the ModelFile storage    *)
(* layer (tatlin/libtatlin/storage.py) as a state machine.                 *)
(*                                                                         *)
(* Conventions                                                             *)
(*  - a path is a sequence of one-character strings;                       *)
(*  - Python's None is the value None below (for cached path attributes)   *)
(*    and "None" (for strings and object references);                      *)
(*  - view quantities and gesture arguments are integers in hundredths, so *)
(*    that delta * SPEED / 100 is exact;                                   *)
(*  - mesh coordinates are integers in units of 10^-7, the output of       *)
(*    "%.6f" is a sign and a magnitude in units of 10^-6;                  *)
(*  - ret is the outcome of the last call (its name, "ok" or "raise", and  *)
(*    the value returned or the exception kind), calls the collaborator    *)
(*    calls that last call issued, in order.                               *)
(***************************************************************************)
EXTENDS Integers, Sequences, FiniteSets, TLC

VARIABLES
    mf,        \* the ModelFile object: _path, _ftype and the cached attributes
    disk,      \* the file system: path -> content (a sequence of lines) or NoFile
    handles,   \* file handles opened by write_stl and not closed
    mesh,      \* the model objects: id -> fields of the Model
    model,     \* Scene.model: a model id or "None"
    actors,    \* Scene.actors: a sequence of actor ids
    views,     \* the two owned views: "ortho" (View2D), "persp" (View3D)
    cur,       \* Scene.current_view: which of the two views is current
    cursor,    \* <<Scene.cursor_x, Scene.cursor_y>>
    inited,    \* the scene ("scene") and supporting actors whose initialized flag is set
    calls,     \* collaborator calls issued by the last Scene call
    ret        \* outcome of the last call

vars == <<mf, disk, handles, mesh, model, actors, views, cur, cursor, inited, calls, ret>>

fileVars == <<mf, disk, handles>>
sceneVars == <<model, actors, views, cur, cursor, inited, calls>>

(***************************************************************************)
(* Bounds of the model                                                     *)
(***************************************************************************)
MaxVerts == 6      \* longest vertex buffer drawn for write_stl
MaxNormals == 6    \* longest normal buffer drawn for write_stl
MaxCoord == 1      \* cursor coordinates range over 0..MaxCoord
MaxCam == 2        \* a view's camera state stays within MaxCam gesture steps
MaxScale == 4      \* numerator and denominator of scaling_factor stay <= MaxScale
MaxOffset == 1     \* translations a mesh may accumulate
MaxTurns == 1      \* quarter turns a mesh may accumulate over its axes
MaxDepth == 2      \* begin() scopes a view may have open at once
MaxActors == 2     \* longest actors list

None == <<"None">>
NoFile == <<"NoFile">>

Ok(op, v) == [op |-> op, kind |-> "ok", val |-> v]
Raise(op, e) == [op |-> op, kind |-> "raise", val |-> e]

Abs(n) == IF n < 0 THEN -n ELSE n

(***************************************************************************)
(* Paths (os.path, posix flavour)                                          *)
(***************************************************************************)
RECURSIVE RFind(_, _, _)
\* str.rfind: the last index <= i of character c in s, 0 when there is none
\* (indices from 1, so Python's -1 is 0 here)
RFind(s, c, i) ==
    IF i = 0 THEN 0
    ELSE IF s[i] = c THEN i
    ELSE RFind(s, c, i - 1)

RECURSIVE RStrip(_, _)
\* str.rstrip(c)
RStrip(s, c) ==
    IF s # <<>> /\ s[Len(s)] = c THEN RStrip(SubSeq(s, 1, Len(s) - 1), c) ELSE s

AllSep(s) == \A i \in 1..Len(s) : s[i] = "/"

\* os.path.dirname
OsDirname(p) ==
    LET i == RFind(p, "/", Len(p))
        head == SubSeq(p, 1, i)
    IN  IF head # <<>> /\ ~AllSep(head) THEN RStrip(head, "/") ELSE head

\* os.path.basename
OsBasename(p) == SubSeq(p, RFind(p, "/", Len(p)) + 1, Len(p))

\* os.path.splitext(p)[-1]: the extension starts at the last dot, unless only
\* dots precede it in the file name
OsSplitextExt(p) ==
    LET sepIndex == RFind(p, "/", Len(p))
        dotIndex == RFind(p, ".", Len(p))
    IN  IF dotIndex > sepIndex
           /\ \E k \in (sepIndex + 1)..(dotIndex - 1) : p[k] # "."
        THEN SubSeq(p, dotIndex, Len(p))
        ELSE <<>>

LowerChar(c) ==
    CASE c = "S" -> "s"
      [] c = "T" -> "t"
      [] c = "L" -> "l"
      [] c = "N" -> "n"
      [] c = "C" -> "c"
      [] OTHER -> c

\* str.lower
Lower(s) == [i \in 1..Len(s) |-> LowerChar(s[i])]

ExtGcode == <<".", "g", "c", "o", "d", "e">>
ExtNc == <<".", "n", "c">>
ExtStl == <<".", "s", "t", "l">>

PartSTL == <<"p", "a", "r", "t", ".", "S", "T", "L">>
JobGcode == <<"j", "o", "b", ".", "g", "c", "o", "d", "e">>
JobNC == <<"j", "o", "b", ".", "N", "C">>
NotesTxt == <<"n", "o", "t", "e", "s", ".", "t", "x", "t">>
DirAStl == <<"d", "/", "a", ".", "s", "t", "l">>
DotStl == <<".", "s", "t", "l">>
DirDotC == <<"a", ".", "s", "t", "l", "/", "c">>

\* the paths given to ModelFile
Paths == {PartSTL, JobGcode, JobNC, NotesTxt, DirAStl, DotStl, DirDotC}

\* the explicit type overrides given to ModelFile ("None": no override)
Ftypes == {"None", "stl", "gcode", "obj"}

(***************************************************************************)
(* ModelFile: construction, path, and the cached derived attributes        *)
(***************************************************************************)
\* _reset_file_attributes
ResetFileAttributes(f) ==
    [f EXCEPT !.dirname = None, !.basename = None, !.extension = None, !.size = None]

\* ModelFile.__init__
NewModelFile(path, ftype) ==
    ResetFileAttributes(
        [path |-> path, ftype |-> ftype,
         dirname |-> None, basename |-> None, extension |-> None, size |-> None])

SetPathKeepingCache(f, path) == [f EXCEPT !.path = path]

\* path.setter
SetPath(f, path) == [ResetFileAttributes(f) EXCEPT !.path = path]

\* Each property read returns <<value, the object afterwards>>.
\* dirname
GetDirname(f) ==
    LET g == IF f.dirname = None THEN [f EXCEPT !.dirname = OsDirname(f.path)] ELSE f
    IN  <<g.dirname, g>>

\* basename
GetBasename(f) ==
    LET g == IF f.basename = None THEN [f EXCEPT !.basename = OsBasename(f.path)] ELSE f
    IN  <<g.basename, g>>

ExtensionNotLowered(f) ==
    IF f.extension = None
    THEN LET b == GetBasename(f)
             g == [b[2] EXCEPT !.extension = OsSplitextExt(b[1])]
         IN  <<g.extension, g>>
    ELSE <<f.extension, f>>

\* extension
GetExtension(f) ==
    IF f.extension = None
    THEN LET b == GetBasename(f)
             g == [b[2] EXCEPT !.extension = Lower(OsSplitextExt(b[1]))]
         IN  <<g.extension, g>>
    ELSE <<f.extension, f>>

\* filetype: <<outcome, the object afterwards>>, the outcome being
\* [kind |-> "ok", val |-> type] or [kind |-> "raise", val |-> exception kind]
GetFiletype(f) ==
    IF f.ftype # "None"
    THEN <<[kind |-> "ok", val |-> f.ftype], f>>
    ELSE LET e == GetExtension(f)
         IN  IF e[1] \notin {ExtGcode, ExtNc, ExtStl}
             THEN <<[kind |-> "raise", val |-> "ModelFileError"], e[2]>>
             ELSE <<[kind |-> "ok",
                     val |-> IF e[1] \in {ExtGcode, ExtNc} THEN "gcode" ELSE "stl"],
                    e[2]>>

(***************************************************************************)
(* The mesh (Model / StlModel)                                             *)
(***************************************************************************)
ModelIds == {"m1", "m2"}

\* the axes, by the letters of Model.letter_axis_map
Axes == {"x", "y", "z"}

\* the vertex and normal vectors meshes are built from (units of 10^-7)
VertexPool == {<<0, 5000000, 0>>, <<14, -5000000, 26>>}
NormalPool == {<<0, 0, 10000000>>, <<-4, 10000000, 0>>}

SeqsUpTo(S, n) == UNION {[1..k -> S] : k \in 0..n}

\* a model object as constructed, before load_data
FreshMesh ==
    [loaded |-> FALSE, modified |-> FALSE, initialized |-> FALSE,
     vertices |-> <<>>, normals |-> <<>>,
     scaling_factor |-> <<1, 1>>,
     offset |-> <<0, 0, 0>>,
     rotation |-> [a \in Axes |-> 0]]

\* rationals <<n, d>> in lowest terms, d > 0
RECURSIVE Gcd(_, _)
Gcd(a, b) == IF b = 0 THEN a ELSE Gcd(b, a % b)

Rat(n, d) ==
    LET g == Gcd(Abs(n), Abs(d))
        sgn == IF d < 0 THEN -1 ELSE 1
    IN  <<(sgn * n) \div g, (sgn * d) \div g>>

RatMul(a, b) == Rat(a[1] * b[1], a[2] * b[2])
RatDiv(a, b) == Rat(a[1] * b[2], a[2] * b[1])

\* the meshes handed to load_data: <<vertices, normals>>; Triangle is the mesh
\* of the unit tests (one normal per vertex)
Triangle ==
    << << <<0, 5000000, 0>>, <<5000000, -5000000, 0>>, <<-5000000, -5000000, 0>> >>,
       << <<0, 0, 10000000>>, <<0, 0, 10000000>>, <<0, 0, 10000000>> >> >>

\* two facets with one normal per facet
TwoFacets ==
    << << <<0, 5000000, 0>>, <<5000000, -5000000, 0>>, <<-5000000, -5000000, 0>>,
          <<0, 5000000, 20000000>>, <<5000000, 0, 0>>, <<0, 0, 0>> >>,
       << <<0, 0, 10000000>>, <<0, 10000000, 0>> >> >>

\* a vertex buffer that is no whole number of facets
Ragged ==
    << << <<0, 5000000, 0>>, <<5000000, -5000000, 0>>, <<-5000000, -5000000, 0>>,
          <<0, 0, 0>> >>,
       << <<0, 0, 10000000>> >> >>

Geometries == {Triangle, TwoFacets, Ragged}

\* one facet lying off the origin and above the platform
Wedge ==
    << << <<0, 0, 10000000>>, <<20000000, 0, 10000000>>, <<0, 10000000, 30000000>> >>,
       << <<0, 0, 10000000>>, <<0, 0, 10000000>>, <<0, 0, 10000000>> >> >>

\* load_data(vertices, normals) on mesh record r: <<outcome, record afterwards>>
MeshLoadData(r, g) ==
    IF Len(g[1]) % 3 # 0
    THEN <<"GeometryError", r>>
    ELSE <<"ok", [r EXCEPT !.loaded = TRUE, !.vertices = g[1], !.normals = g[2],
                           !.modified = FALSE]>>

\* scale(factor)
MeshScale(r, f) ==
    IF f[1] <= 0
    THEN <<"GeometryError", r>>
    ELSE <<"ok", [r EXCEPT !.scaling_factor = RatMul(r.scaling_factor, f),
                           !.modified = TRUE]>>

\* translate(dx, dy, dz)
MeshTranslate(r, d) ==
    [r EXCEPT !.offset = <<r.offset[1] + d[1], r.offset[2] + d[2], r.offset[3] + d[3]>>,
              !.modified = TRUE]

\* rotate_rel(angle, axis)
MeshRotateRel(r, angle, axis) ==
    [r EXCEPT !.rotation[axis] = r.rotation[axis] + angle, !.modified = TRUE]

\* rotate_abs(angle, axis)
MeshRotateAbs(r, angle, axis) ==
    [r EXCEPT !.rotation[axis] = angle, !.modified = TRUE]

\* init()
MeshInit(r) == [r EXCEPT !.initialized = TRUE]

AxisOfDimension(dim) ==
    CASE dim = "width" -> 1
      [] dim = "depth" -> 2
      [] dim = "height" -> 3

SetMax(S) == CHOOSE a \in S : \A b \in S : b <= a
SetMin(S) == CHOOSE a \in S : \A b \in S : a <= b

\* getattr(model, dimension): the extent of the bounding box of the scaled
\* vertices along the dimension's axis (of an unrotated mesh), a rational
Dimension(r, dim) ==
    LET i == AxisOfDimension(dim)
        cs == {r.vertices[k][i] : k \in 1..Len(r.vertices)}
    IN  RatMul(<<SetMax(cs) - SetMin(cs), 1>>, r.scaling_factor)

\* a raw coordinate c along axis i as transformed by the mesh's scaling and
\* offset, to the unit of the coordinates
Transformed(r, c, i) == (c * r.scaling_factor[1]) \div r.scaling_factor[2] + r.offset[i]

\* bounding_box: <<lower_corner, upper_corner>> of the transformed vertices
BoundingBox(r) ==
    LET cs(i) == {Transformed(r, r.vertices[k][i], i) : k \in 1..Len(r.vertices)}
    IN  << <<SetMin(cs(1)), SetMin(cs(2)), SetMin(cs(3))>>,
           <<SetMax(cs(1)), SetMax(cs(2)), SetMax(cs(3))>> >>

\* the caps on a mesh's transform state
MeshInBounds(r) ==
    /\ r.scaling_factor[1] <= MaxScale
    /\ r.scaling_factor[2] <= MaxScale
    /\ Abs(r.offset[1]) <= MaxOffset
    /\ Abs(r.rotation["x"]) + Abs(r.rotation["y"]) + Abs(r.rotation["z"]) <= MaxTurns * 90

(***************************************************************************)
(* ModelFile.write_stl                                                     *)
(***************************************************************************)
\* "%.6f" of a coordinate: sign and magnitude in units of 10^-6, the magnitude
\* rounded to the nearest unit
Fmt6(x) == <<IF x < 0 THEN "-" ELSE "", (Abs(x) + 5) \div 10>>

Fmt6Vec(v) == <<Fmt6(v[1]), Fmt6(v[2]), Fmt6(v[3])>>

\* the lines of one vertex list joined by "\n" into the template's "    %s":
\* only the first line carries the template's indentation
VertexLines(vs) ==
    [j \in 1..Len(vs) |-> <<IF j = 1 THEN 4 ELSE 0, "vertex", Fmt6Vec(vs[j])>>]

\* _format_facet: the lines of one facet block
FormatFacet(vs, normal) ==
    <<<<0, "facet normal", Fmt6Vec(normal)>>, <<2, "outer loop">>>>
    \o VertexLines(vs)
    \o <<<<2, "endloop">>, <<0, "endfacet">>>>

\* range(0, len(vertices), 3), as 1-based positions
FacetStarts(vertices) == {i \in 1..Len(vertices) : (i - 1) % 3 = 0}

\* vertices[i : i + 3]
Slice3(vertices, i) ==
    SubSeq(vertices, i, IF i + 2 <= Len(vertices) THEN i + 2 ELSE Len(vertices))

NormalIndexPerFacet(i) == (i - 1) \div 3 + 1

\* the index into normals used for the facet starting at vertex position i:
\* normals[i], the same index as the facet's first vertex
NormalIndex(i) == i

RECURSIVE JoinFacets(_, _, _)
\* "".join([... for i in range(0, len(vertices), 3)]), from position i on
JoinFacets(vertices, normals, i) ==
    IF i > Len(vertices) THEN <<>>
    ELSE FormatFacet(Slice3(vertices, i), normals[NormalIndex(i)])
         \o JoinFacets(vertices, normals, i + 3)

\* the text write_stl prints when nothing fails; the joined facets are printed
\* with print's own newline after them, which leaves an empty line
StlText(vertices, normals) ==
    <<<<0, "solid">>>> \o JoinFacets(vertices, normals, 1)
    \o <<<<0, "">>, <<0, "endsolid">>>>

\* writing buf at the start of a file holding old
Overlay(old, buf) == buf \o SubSeq(old, Len(buf) + 1, Len(old))

\* write_stl(stl_model) on ModelFile f: the set of possible outcomes
\* [res, f, disk, handles]; open() fails or not as the file system decides
WriteStl(f, m, d, h) ==
    LET ft == GetFiletype(f)
        out(res, f2, d2, h2) == [res |-> res, f |-> f2, disk |-> d2, handles |-> h2]
    IN  IF ft[1].kind = "raise"
        THEN {out(Raise("write_stl", ft[1].val), ft[2], d, h)}
        ELSE IF ft[1].val # "stl"
        THEN {out(Raise("write_stl", "AssertionError"), ft[2], d, h)}
        ELSE IF m = "None" \/ ~mesh[m].loaded
        THEN {out(Raise("write_stl", "AttributeError"), ft[2], d, h)}
        ELSE LET vertices == mesh[m].vertices
                 normals == mesh[m].normals
                 opened == [d EXCEPT ![f.path] = <<>>]
             IN  {out(Raise("write_stl", "OSError"), ft[2], d, h)}
                 \cup
                 (IF \E i \in FacetStarts(vertices) : NormalIndex(i) > Len(normals)
                  THEN {out(Raise("write_stl", "IndexError"), ft[2], opened,
                            h \cup {[path |-> f.path, buf |-> <<<<0, "solid">>>>]})}
                  ELSE {out(Ok("write_stl", "None"), ft[2],
                            [d EXCEPT ![f.path] = StlText(vertices, normals)], h)})

(***************************************************************************)
(* ModelFile.read and the two loaders                                      *)
(***************************************************************************)
\* what a parser step (load or parse) may do: return, raise the parser's own
\* error, or raise something else
ParserSteps == {"ok", "parser_error", "other_error"}

ParserErrorOf(ft) == IF ft = "gcode" THEN "GcodeParserError" ELSE "StlParseError"

\* the message a parser's error carries
ParserMessage(step) == <<"bad input at", step>>

\* _load_gcode_model / _load_stl_model: the outcome of the loader for type ft
\* on path p, with the parser's load step doing `load` and its parse step
\* doing `parse`; only a parser error of the parse step is caught and
\* rethrown as ModelFileError
Loader(ft, p, d, load, parse) ==
    IF d[p] = NoFile
    THEN Raise("read", [exc |-> "OSError", msg |-> <<"No such file">>])
    ELSE IF load = "parser_error"
    THEN Raise("read", [exc |-> ParserErrorOf(ft), msg |-> ParserMessage("load")])
    ELSE IF load = "other_error"
    THEN Raise("read", [exc |-> "Exception", msg |-> ParserMessage("load")])
    ELSE IF parse = "parser_error"
    THEN Raise("read", [exc |-> "ModelFileError",
                        msg |-> <<"Parsing error: ">> \o ParserMessage("parse")])
    ELSE IF parse = "other_error"
    THEN Raise("read", [exc |-> "Exception", msg |-> ParserMessage("parse")])
    ELSE Ok("read", <<IF ft = "gcode" THEN "GcodeModel" ELSE "StlModel", d[p]>>)

\* the parser calls a loader makes, with what each did
LoaderCalls(p, d, load, parse) ==
    IF d[p] = NoFile THEN <<>>
    ELSE IF load # "ok" THEN << <<"parser", "load", load>> >>
    ELSE << <<"parser", "load", load>>, <<"parser", "parse", parse>> >>

\* read: self._loaders[self.filetype](callback)
ReadOutcome(f, d, load, parse) ==
    LET ft == GetFiletype(f)
    IN  IF ft[1].kind = "raise"
        THEN Raise("read", [exc |-> ft[1].val,
                            msg |-> <<"Unsupported file extension: ">> \o GetExtension(f)[1]])
        ELSE IF ft[1].val \notin {"gcode", "stl"}
        THEN Raise("read", [exc |-> "KeyError", msg |-> <<ft[1].val>>])
        ELSE Loader(ft[1].val, f.path, d, load, parse)

ReadCalls(f, d, load, parse) ==
    LET ft == GetFiletype(f)
    IN  IF ft[1].kind = "raise" \/ ft[1].val \notin {"gcode", "stl"}
        THEN <<>>
        ELSE LoaderCalls(f.path, d, load, parse)

(***************************************************************************)
(* Initial values                                                          *)
(***************************************************************************)
OldContent == << <<0, "solid">>, <<0, "">>, <<0, "endsolid">> >>

\* the files present at the start: PartSTL, JobGcode and NotesTxt exist
InitDisk ==
    [p \in Paths |-> IF p \in {PartSTL, JobGcode, NotesTxt} THEN OldContent ELSE NoFile]

InitView ==
    [x |-> 0, y |-> 0, z |-> 0, zoom |-> 0, azimuth |-> 0, elevation |-> 0,
     ortho |-> FALSE, depth |-> 0]

\* Scene.__init__
InitScene ==
    /\ model = "None"
    /\ actors = <<>>
    /\ cursor = <<0, 0>>
    /\ views = [v \in {"ortho", "persp"} |-> InitView]
    /\ cur = "persp"
    /\ inited = {}
    /\ calls = <<>>

InitFiles ==
    /\ mf = NewModelFile(PartSTL, "None")
    /\ disk = InitDisk
    /\ handles = {}

InitMeshes == mesh = [m \in ModelIds |-> FreshMesh]

NoCall == Ok("init", "None")

(***************************************************************************)
(* Operations on a ModelFile                                               *)
(***************************************************************************)
\* ModelFile(path, ftype)
FileNew(p, t) ==
    /\ mf' = NewModelFile(p, t)
    /\ ret' = Ok("ModelFile", "None")
    /\ UNCHANGED <<disk, handles, mesh, sceneVars>>

\* mf.path = p
FileSetPath(p) ==
    /\ mf' = SetPath(mf, p)
    /\ ret' = Ok("path=", "None")
    /\ UNCHANGED <<disk, handles, mesh, sceneVars>>

\* mf.dirname
FileDirname ==
    /\ mf' = GetDirname(mf)[2]
    /\ ret' = Ok("dirname", GetDirname(mf)[1])
    /\ UNCHANGED <<disk, handles, mesh, sceneVars>>

\* mf.basename
FileBasename ==
    /\ mf' = GetBasename(mf)[2]
    /\ ret' = Ok("basename", GetBasename(mf)[1])
    /\ UNCHANGED <<disk, handles, mesh, sceneVars>>

\* mf.extension
FileExtension ==
    /\ mf' = GetExtension(mf)[2]
    /\ ret' = Ok("extension", GetExtension(mf)[1])
    /\ UNCHANGED <<disk, handles, mesh, sceneVars>>

\* mf.filetype
FileFiletype ==
    /\ mf' = GetFiletype(mf)[2]
    /\ ret' = [op |-> "filetype", kind |-> GetFiletype(mf)[1].kind,
               val |-> GetFiletype(mf)[1].val]
    /\ UNCHANGED <<disk, handles, mesh, sceneVars>>

\* mf.read(callback), the parser steps doing what the input makes them do
FileRead(load, parse) ==
    /\ mf' = GetFiletype(mf)[2]
    /\ ret' = ReadOutcome(mf, disk, load, parse)
    /\ calls' = ReadCalls(mf, disk, load, parse)
    /\ UNCHANGED <<disk, handles, mesh, model, actors, views, cur, cursor, inited>>

\* mf.write_stl(m)
FileWriteStl(m) ==
    \E o \in WriteStl(mf, m, disk, handles) :
        /\ mf' = o.f
        /\ disk' = o.disk
        /\ handles' = o.handles
        /\ ret' = o.res
        /\ UNCHANGED <<mesh, sceneVars>>

\* a file object write_stl left open is finalized: its buffer is flushed and
\* the handle closed
Finalize ==
    \E h \in handles :
        /\ handles' = handles \ {h}
        /\ disk' = [disk EXCEPT ![h.path] = Overlay(disk[h.path], h.buf)]
        /\ UNCHANGED <<mf, mesh, sceneVars, ret>>

(***************************************************************************)
(* The views (View2D is "ortho", View3D is "persp")                        *)
(***************************************************************************)
ViewIds == {"ortho", "persp"}

\* supports_ortho
SupportsOrtho(v) == v = "persp"

\* hasattr(view, "offset")
HasOffset(v) == v = "persp"

\* rotate(delta_azimuth, delta_elevation): no-op for View2D
ViewRotate(v, r, da, de) ==
    IF v = "persp"
    THEN [r EXCEPT !.azimuth = r.azimuth + da, !.elevation = r.elevation + de]
    ELSE r

\* pan(dx, dy)
ViewPan(r, dx, dy) == [r EXCEPT !.x = r.x + dx, !.y = r.y + dy]

\* offset(dx, dy): panning along the view's third axis
ViewOffset(r, dx, dy) == [r EXCEPT !.z = r.z + dy]

\* zoom(dx, dy): one zoom step in for positive dy, out for negative dy
ViewZoom(r, dx, dy) ==
    [r EXCEPT !.zoom = r.zoom + (IF dy > 0 THEN 1 ELSE IF dy < 0 THEN -1 ELSE 0)]

\* reset_state()
ViewResetState(r) ==
    [r EXCEPT !.x = 0, !.y = 0, !.z = 0, !.zoom = 0, !.azimuth = 0, !.elevation = 0]

PAN_SPEED == 25
ROTATE_SPEED == 25

\* gesture steps a view's camera is away from its defaults
CamSteps(r) ==
    (Abs(r.x) + Abs(r.y) + Abs(r.z)) \div PAN_SPEED
    + (Abs(r.azimuth) + Abs(r.elevation)) \div ROTATE_SPEED
    + Abs(r.zoom)

\* the cap on the camera state of the two views together
ViewsInBounds(vs) == CamSteps(vs["ortho"]) + CamSteps(vs["persp"]) <= MaxCam

Invalidate == <<"scene", "invalidate", <<>>>>

(***************************************************************************)
(* Scene: viewing manipulations                                            *)
(***************************************************************************)
\* button_press(x, y)
ButtonPress(x, y) ==
    /\ cursor' = <<x, y>>
    /\ calls' = <<>>
    /\ ret' = Ok("button_press", <<x, y>>)
    /\ UNCHANGED <<fileVars, mesh, model, actors, views, cur, inited>>

GestureRightFirst(left, middle, right) ==
    IF right THEN "pan"
    ELSE IF middle THEN (IF HasOffset(cur) THEN "offset" ELSE "none")
    ELSE IF left THEN "rotate"
    ELSE "none"

\* the branch button_motion takes: left, else middle (only with the offset
\* capability), else right
Gesture(left, middle, right) ==
    IF left THEN "rotate"
    ELSE IF middle THEN (IF HasOffset(cur) THEN "offset" ELSE "none")
    ELSE IF right THEN "pan"
    ELSE "none"

DeltaFromOrigin(x, y) == <<x, y>>

\* delta_x, delta_y of button_motion
Delta(x, y) == <<x - cursor[1], y - cursor[2]>>

\* button_motion(x, y, left, middle, right)
ButtonMotion(x, y, left, middle, right) ==
    LET g == Gesture(left, middle, right)
        d == Delta(x, y)
        speed == IF g = "rotate" THEN ROTATE_SPEED ELSE PAN_SPEED
        \* delta * SPEED / 100, in hundredths
        a == d[1] * speed
        b == d[2] * speed
        r == views[cur]
    IN  /\ views' = [views EXCEPT ![cur] =
                        CASE g = "rotate" -> ViewRotate(cur, r, a, b)
                          [] g = "offset" -> ViewOffset(r, a, b)
                          [] g = "pan" -> ViewPan(r, a, b)
                          [] OTHER -> r]
        /\ ViewsInBounds(views')
        /\ cursor' = <<x, y>>
        /\ calls' = (IF g = "none" THEN <<>> ELSE << <<cur, g, <<a, b>>>> >>)
                    \o <<Invalidate>>
        /\ ret' = Ok("button_motion", <<x, y, left, middle, right>>)
        /\ UNCHANGED <<fileVars, mesh, model, actors, cur, inited>>

WheelDirectionSign(direction) ==
    IF direction < 0 THEN -1 ELSE IF direction = 0 THEN 0 ELSE 1

\* the direction wheel_scroll normalizes its argument to
WheelDirection(direction) == IF direction < 0 THEN -1 ELSE 1

\* wheel_scroll(direction); delta_y = 30.0 is 3000 hundredths
WheelScroll(direction) ==
    LET delta_y == WheelDirection(direction) * 3000
    IN  /\ views' = [views EXCEPT ![cur] = ViewZoom(views[cur], 0, delta_y)]
        /\ ViewsInBounds(views')
        /\ calls' = << <<cur, "zoom", <<0, delta_y>>>>, Invalidate >>
        /\ ret' = Ok("wheel_scroll", direction)
        /\ UNCHANGED <<fileVars, mesh, model, actors, cur, cursor, inited>>

\* reset_view(both)
ResetView(both) ==
    /\ views' = [v \in ViewIds |->
                    IF both \/ v = cur THEN ViewResetState(views[v]) ELSE views[v]]
    /\ calls' = IF both
                THEN << <<"ortho", "reset_state", <<>>>>, <<"persp", "reset_state", <<>>>> >>
                ELSE << <<cur, "reset_state", <<>>>> >>
    /\ ret' = Ok("reset_view", both)
    /\ UNCHANGED <<fileVars, mesh, model, actors, cur, cursor, inited>>

Mode2dSetterResetting(value) ==
    /\ cur' = IF value THEN "ortho" ELSE "persp"
    /\ views' = [views EXCEPT ![cur'] = ViewResetState(views[cur'])]
    /\ calls' = <<>>
    /\ ret' = Ok("mode_2d=", value)
    /\ UNCHANGED <<fileVars, mesh, model, actors, cursor, inited>>

\* mode_2d = value
SetMode2d(value) ==
    /\ cur' = IF value THEN "ortho" ELSE "persp"
    /\ calls' = <<>>
    /\ ret' = Ok("mode_2d=", value)
    /\ UNCHANGED <<fileVars, mesh, model, actors, views, cursor, inited>>

\* mode_2d
Mode2d == cur = "ortho"

\* mode_ortho
ModeOrtho == SupportsOrtho(cur) /\ views[cur].ortho

\* reading mode_ortho
GetModeOrtho ==
    /\ calls' = <<>>
    /\ ret' = Ok("mode_ortho", ModeOrtho)
    /\ UNCHANGED <<fileVars, mesh, model, actors, views, cur, cursor, inited>>

SetModeOrthoAnyView(value) ==
    /\ views' = [views EXCEPT ![cur].ortho = value]
    /\ calls' = <<>>
    /\ ret' = Ok("mode_ortho=", value)
    /\ UNCHANGED <<fileVars, mesh, model, actors, cur, cursor, inited>>

\* mode_ortho = value
SetModeOrtho(value) ==
    /\ views' = IF SupportsOrtho(cur) THEN [views EXCEPT ![cur].ortho = value] ELSE views
    /\ calls' = <<>>
    /\ ret' = Ok("mode_ortho=", value)
    /\ UNCHANGED <<fileVars, mesh, model, actors, cur, cursor, inited>>

RotateViewIn2dToo(azimuth, elevation) ==
    /\ views' = [views EXCEPT ![cur].azimuth = azimuth, ![cur].elevation = elevation]
    /\ ViewsInBounds(views')
    /\ calls' = <<Invalidate>>
    /\ ret' = Ok("rotate_view", <<azimuth, elevation>>)
    /\ UNCHANGED <<fileVars, mesh, model, actors, cur, cursor, inited>>

\* rotate_view(azimuth, elevation)
RotateView(azimuth, elevation) ==
    /\ views' = IF ~Mode2d
                THEN [views EXCEPT ![cur].azimuth = azimuth, ![cur].elevation = elevation]
                ELSE views
    /\ ViewsInBounds(views')
    /\ calls' = IF ~Mode2d THEN <<Invalidate>> ELSE <<>>
    /\ ret' = Ok("rotate_view", <<azimuth, elevation>>)
    /\ UNCHANGED <<fileVars, mesh, model, actors, cur, cursor, inited>>

(***************************************************************************)
(* The mesh's own operations, called on a model object                     *)
(***************************************************************************)
\* m.load_data(g), on a model object as constructed
LoadData(m, g) ==
    /\ ~mesh[m].loaded
    /\ mesh' = [mesh EXCEPT ![m] = MeshLoadData(mesh[m], g)[2]]
    /\ ret' = IF MeshLoadData(mesh[m], g)[1] = "ok"
              THEN Ok("load_data", m)
              ELSE Raise("load_data", MeshLoadData(mesh[m], g)[1])
    /\ UNCHANGED <<fileVars, sceneVars>>

\* m.scale(f)
Scale(m, f) ==
    /\ mesh[m].loaded
    /\ mesh' = [mesh EXCEPT ![m] = MeshScale(mesh[m], f)[2]]
    /\ MeshInBounds(mesh'[m])
    /\ ret' = IF MeshScale(mesh[m], f)[1] = "ok"
              THEN Ok("scale", m)
              ELSE Raise("scale", MeshScale(mesh[m], f)[1])
    /\ UNCHANGED <<fileVars, sceneVars>>

\* m.translate(dx, dy, dz)
Translate(m, d) ==
    /\ mesh[m].loaded
    /\ mesh' = [mesh EXCEPT ![m] = MeshTranslate(mesh[m], d)]
    /\ MeshInBounds(mesh'[m])
    /\ ret' = Ok("translate", m)
    /\ UNCHANGED <<fileVars, sceneVars>>

\* m.rotate_rel(angle, axis)
RotateRel(m, angle, axis) ==
    /\ mesh[m].loaded
    /\ mesh' = [mesh EXCEPT ![m] = MeshRotateRel(mesh[m], angle, axis)]
    /\ MeshInBounds(mesh'[m])
    /\ ret' = Ok("rotate_rel", m)
    /\ UNCHANGED <<fileVars, sceneVars>>

\* m.rotate_abs(angle, axis)
RotateAbs(m, angle, axis) ==
    /\ mesh[m].loaded
    /\ mesh' = [mesh EXCEPT ![m] = MeshRotateAbs(mesh[m], angle, axis)]
    /\ MeshInBounds(mesh'[m])
    /\ ret' = Ok("rotate_abs", m)
    /\ UNCHANGED <<fileVars, sceneVars>>

(***************************************************************************)
(* Scene: actors, export, model manipulation                               *)
(***************************************************************************)
SupportingActors == {"platform"}

\* add_model(model)
AddModel(m) ==
    /\ Len(actors) < MaxActors
    /\ model' = m
    /\ actors' = Append(actors, m)
    /\ calls' = <<>>
    /\ ret' = Ok("add_model", m)
    /\ UNCHANGED <<fileVars, mesh, views, cur, cursor, inited>>

\* add_supporting_actor(actor)
AddSupportingActor(a) ==
    /\ Len(actors) < MaxActors
    /\ actors' = Append(actors, a)
    /\ calls' = <<>>
    /\ ret' = Ok("add_supporting_actor", a)
    /\ UNCHANGED <<fileVars, mesh, model, views, cur, cursor, inited>>

\* clear()
Clear ==
    /\ actors' = <<>>
    /\ calls' = <<>>
    /\ ret' = Ok("clear", "None")
    /\ UNCHANGED <<fileVars, mesh, model, views, cur, cursor, inited>>

\* actor in self.actors
InActors(a) == \E i \in 1..Len(actors) : actors[i] = a

\* actor.initialized
Initialized(a) == IF a \in ModelIds THEN mesh[a].initialized ELSE a \in inited

RECURSIVE InitCalls(_, _, _)
\* the init() calls of init_actors from position i of acts on, done being the
\* actors whose flag is set by then
InitCalls(acts, i, done) ==
    IF i > Len(acts) THEN <<>>
    ELSE IF acts[i] \in done THEN InitCalls(acts, i + 1, done)
    ELSE << <<acts[i], "init", <<>>>> >> \o InitCalls(acts, i + 1, done \cup {acts[i]})

\* the actors whose initialized flag is set
FoundInitialized == {a \in ModelIds \cup SupportingActors : Initialized(a)}

\* the model objects after init_actors: init() has run on every model in
\* actors that was not initialized
InitActorsMesh ==
    [m \in ModelIds |->
        IF InActors(m) /\ m \notin FoundInitialized THEN MeshInit(mesh[m]) ELSE mesh[m]]

\* the initialized supporting actors after init_actors
InitActorsInited == inited \cup ({actors[i] : i \in 1..Len(actors)} \ ModelIds)

\* init_actors(); the value recorded for the call is the set of actors it
\* found initialized
InitActors ==
    /\ mesh' = InitActorsMesh
    /\ inited' = InitActorsInited
    /\ calls' = InitCalls(actors, 1, FoundInitialized)
    /\ ret' = Ok("init_actors", FoundInitialized)
    /\ UNCHANGED <<fileVars, model, actors, views, cur, cursor>>

\* init(): the GL state, init_actors(), then self.initialized = True
SceneInit ==
    /\ mesh' = InitActorsMesh
    /\ inited' = InitActorsInited \cup {"scene"}
    /\ calls' = InitCalls(actors, 1, FoundInitialized)
    /\ ret' = Ok("scene.init", FoundInitialized)
    /\ UNCHANGED <<fileVars, model, actors, views, cur, cursor>>

ModifiedClearedAlways(res, old) == FALSE

\* the model's modified flag after export_to_file: the assignment follows the
\* call of write_stl and is reached only when that call returns
ModifiedAfterExport(res, old) == IF res.kind = "ok" THEN FALSE ELSE old

\* export_to_file(ModelFile(p, t))
ExportToFile(p, t) ==
    \E o \in WriteStl(NewModelFile(p, t), model, disk, handles) :
        /\ mf' = o.f
        /\ disk' = o.disk
        /\ handles' = o.handles
        /\ mesh' = IF model = "None" THEN mesh
                   ELSE [mesh EXCEPT ![model].modified =
                            ModifiedAfterExport(o.res, mesh[model].modified)]
        /\ calls' = << <<"model_file", "write_stl", <<model>>>> >>
        /\ ret' = [op |-> "export_to_file", kind |-> o.res.kind,
                   val |-> IF o.res.kind = "ok" THEN model ELSE o.res.val]
        /\ UNCHANGED <<model, actors, views, cur, cursor, inited>>

\* scale_model(factor): model.scale(factor), then model.init()
ScaleModelOn(r, f) ==
    IF MeshScale(r, f)[1] = "ok" THEN <<"ok", MeshInit(MeshScale(r, f)[2])>>
    ELSE MeshScale(r, f)

\* scale_model(factor)
ScaleModel(f) ==
    /\ model # "None"
    /\ mesh[model].loaded
    /\ mesh' = [mesh EXCEPT ![model] = ScaleModelOn(mesh[model], f)[2]]
    /\ MeshInBounds(mesh'[model])
    /\ calls' = <<>>
    /\ ret' = IF ScaleModelOn(mesh[model], f)[1] = "ok"
              THEN Ok("scale_model", f)
              ELSE Raise("scale_model", ScaleModelOn(mesh[model], f)[1])
    /\ UNCHANGED <<fileVars, model, actors, views, cur, cursor, inited>>

\* the factor change_model_dimension hands to scale_model
DimensionFactor(r, dim, value) ==
    RatMul(RatDiv(<<value, 1>>, Dimension(r, dim)), r.scaling_factor)

\* change_model_dimension(dimension, value)
ChangeModelDimension(dim, value) ==
    /\ model # "None"
    /\ mesh[model].loaded
    /\ IF Dimension(mesh[model], dim)[1] = 0
       THEN /\ ret' = Raise("change_model_dimension", "ZeroDivisionError")
            /\ mesh' = mesh
       ELSE LET o == ScaleModelOn(mesh[model], DimensionFactor(mesh[model], dim, value))
            IN  /\ mesh' = [mesh EXCEPT ![model] = o[2]]
                /\ MeshInBounds(mesh'[model])
                /\ ret' = IF o[1] = "ok"
                          THEN Ok("change_model_dimension", <<dim, value>>)
                          ELSE Raise("change_model_dimension", o[1])
    /\ calls' = <<>>
    /\ UNCHANGED <<fileVars, model, actors, views, cur, cursor, inited>>

\* the offsets view_model_center and center_model compute from the bounding
\* box: its centre to the origin in x and y, its lowest point to z = 0
CenterOffsets(r) ==
    LET lower_corner == BoundingBox(r)[1]
        upper_corner == BoundingBox(r)[2]
    IN  <<(0 - (upper_corner[1] + lower_corner[1])) \div 2,
          (0 - (upper_corner[2] + lower_corner[2])) \div 2,
          0 - lower_corner[3]>>

ViewModelCenterByTranslate(r) == MeshTranslate(r, CenterOffsets(r))

\* view_model_center on the model's record: offset_x, offset_y, offset_z are
\* assigned
ViewModelCenterOn(r) == [r EXCEPT !.offset = CenterOffsets(r)]

\* view_model_center()
ViewModelCenter ==
    /\ model # "None"
    /\ mesh[model].loaded
    /\ mesh' = [mesh EXCEPT ![model] = ViewModelCenterOn(mesh[model])]
    /\ calls' = <<>>
    /\ ret' = Ok("view_model_center", "None")
    /\ UNCHANGED <<fileVars, model, actors, views, cur, cursor, inited>>

\* center_model(): model.translate(offsets), then model.init()
CenterModel ==
    /\ model # "None"
    /\ mesh[model].loaded
    /\ mesh' = [mesh EXCEPT ![model] =
                    MeshInit(MeshTranslate(mesh[model], CenterOffsets(mesh[model])))]
    /\ calls' = <<>>
    /\ ret' = Ok("center_model", "None")
    /\ UNCHANGED <<fileVars, model, actors, views, cur, cursor, inited>>

\* reading model_modified: self.model and self.model.modified
GetModelModified ==
    /\ calls' = <<>>
    /\ ret' = Ok("model_modified", IF model = "None" THEN "None" ELSE mesh[model].modified)
    /\ UNCHANGED <<fileVars, mesh, model, actors, views, cur, cursor, inited>>

(***************************************************************************)
(* Scene.display                                                           *)
(***************************************************************************)
DisplayArgsAlwaysEyeHeight ==
    <<"eye_height",
      <<views[cur].y, views[cur].zoom, views[cur].z, views[cur].elevation>>,
      ModeOrtho, Mode2d>>

\* what the actors are handed: -elevation in orthographic mode, else the eye
\* height, a function of the current view's y, zoom_factor, z and elevation
DisplayArgs ==
    IF ModeOrtho
    THEN <<"elevation", -views[cur].elevation, ModeOrtho, Mode2d>>
    ELSE <<"eye_height",
           <<views[cur].y, views[cur].zoom, views[cur].z, views[cur].elevation>>,
           ModeOrtho, Mode2d>>

\* the calls of a display on which nothing fails, in order
DisplayCalls ==
    << <<"ortho", "begin", <<>>>>,
       <<cur, "ui_transform", <<>>>>,
       <<"ortho", "end", <<>>>>,
       <<cur, "begin", <<>>>>,
       <<cur, "display_transform", <<>>>> >>
    \o [i \in 1..Len(actors) |-> <<actors[i], "display", DisplayArgs>>]
    \o << <<cur, "end", <<>>>> >>

\* the calls display can fail in: draw_axes, display_transform, an actor's display
FailPoints == {2, 5} \cup {5 + i : i \in 1..Len(actors)}

Count(cs, v, method) ==
    Cardinality({i \in 1..Len(cs) : cs[i][1] = v /\ cs[i][2] = method})

\* the calls display issues when its call number failAt raises (0: none does):
\* the exception leaves display at once
Displayed(failAt) ==
    IF failAt = 0 THEN DisplayCalls ELSE SubSeq(DisplayCalls, 1, failAt)

\* display(w, h)
Display(failAt) ==
    /\ failAt \in {0} \cup FailPoints
    /\ calls' = Displayed(failAt)
    /\ views' = [v \in ViewIds |->
                    [views[v] EXCEPT !.depth = views[v].depth
                        + Count(calls', v, "begin") - Count(calls', v, "end")]]
    /\ \A v \in ViewIds : views'[v].depth <= MaxDepth
    /\ ret' = IF failAt = 0 THEN Ok("display", "None")
              ELSE Raise("display", <<"Exception", failAt>>)
    /\ UNCHANGED <<fileVars, mesh, model, actors, cur, cursor, inited>>

(***************************************************************************)
(* SpecFile: a ModelFile's path and derived attributes                     *)
(***************************************************************************)
InitFile ==
    /\ mf \in {NewModelFile(DirAStl, t) : t \in Ftypes}
    /\ disk = InitDisk
    /\ handles = {}
    /\ InitMeshes
    /\ InitScene
    /\ ret = NoCall

NextFile ==
    \/ \E p \in Paths : FileSetPath(p)
    \/ FileDirname
    \/ FileBasename
    \/ FileExtension
    \/ FileFiletype

SpecFile == InitFile /\ [][NextFile]_vars

(***************************************************************************)
(* SpecRead: reading model files                                           *)
(***************************************************************************)
NextRead ==
    \/ \E p \in Paths, t \in Ftypes : FileNew(p, t)
    \/ \E load \in ParserSteps, parse \in ParserSteps : FileRead(load, parse)

SpecRead == InitFile /\ [][NextRead]_vars

(***************************************************************************)
(* SpecStl: writing meshes of every shape                                  *)
(***************************************************************************)
InitStl ==
    /\ mf \in {NewModelFile(PartSTL, "None"), NewModelFile(JobNC, "None"),
               NewModelFile(NotesTxt, "None"), NewModelFile(NotesTxt, "stl")}
    /\ disk = InitDisk
    /\ handles = {}
    /\ \E vs \in SeqsUpTo(VertexPool, MaxVerts), ns \in SeqsUpTo(NormalPool, MaxNormals) :
          mesh = [m \in ModelIds |->
                    IF m = "m1"
                    THEN [FreshMesh EXCEPT !.loaded = TRUE, !.vertices = vs, !.normals = ns]
                    ELSE FreshMesh]
    /\ InitScene
    /\ ret = NoCall

NextStl ==
    \/ \E m \in ModelIds : FileWriteStl(m)
    \/ Finalize

SpecStl == InitStl /\ [][NextStl]_vars

(***************************************************************************)
(* Claims about the ModelFile                                              *)
(***************************************************************************)
\* the extension of a path, computed from the path itself
ExtOfPath(p) == Lower(OsSplitextExt(OsBasename(p)))

\* what a filetype read must have produced, with err the kind of the failure
\* for an unsupported extension
FiletypeContract(err) ==
    ret.op = "filetype" =>
        /\ mf.ftype # "None" => (ret.kind = "ok" /\ ret.val = mf.ftype)
        /\ mf.ftype = "None" =>
            /\ ExtOfPath(mf.path) \in {ExtGcode, ExtNc} =>
                  (ret.kind = "ok" /\ ret.val = "gcode")
            /\ ExtOfPath(mf.path) = ExtStl => (ret.kind = "ok" /\ ret.val = "stl")
            /\ ExtOfPath(mf.path) \notin {ExtGcode, ExtNc, ExtStl} =>
                  (ret.kind = "raise" /\ ret.val = err)
            /\ mf.path = PartSTL => (ret.kind = "ok" /\ ret.val = "stl")
            /\ mf.path = JobGcode => (ret.kind = "ok" /\ ret.val = "gcode")
            /\ mf.path = JobNC => (ret.kind = "ok" /\ ret.val = "gcode")
            /\ mf.path = NotesTxt => (ret.kind = "raise" /\ ret.val = err)

\* C4 (as amended): filetype returns the explicit override when one was given;
\* otherwise "gcode" for the lower-cased extension .gcode or .nc, "stl" for
\* .stl, and for any other extension it fails with ModelFileError, the only
\* error kind of the storage layer (part.STL -> stl, job.NC -> gcode,
\* notes.txt -> ModelFileError).
C4_Filetype == FiletypeContract("ModelFileError")

\* C4 as stated: the failure for any other extension is an UnsupportedExtension.
C4_FiletypeUnsupportedExtension == FiletypeContract("UnsupportedExtension")

\* C4: filetype was read on notes.txt without an override, and failed
C4_Witness ==
    /\ ret.op = "filetype"
    /\ mf.ftype = "None"
    /\ mf.path = NotesTxt
    /\ ret.kind = "raise"

\* C10: every read of dirname, basename, extension and (without an override)
\* filetype returns the value derived from the current path, whatever reads
\* and reassignments of path came before; a cached attribute is never one of
\* an earlier path.
C10_DerivedFollowPath ==
    /\ ret.op = "dirname" => ret.val = OsDirname(mf.path)
    /\ ret.op = "basename" => ret.val = OsBasename(mf.path)
    /\ ret.op = "extension" => ret.val = ExtOfPath(mf.path)
    /\ (ret.op = "filetype" /\ mf.ftype = "None") =>
          IF ExtOfPath(mf.path) \in {ExtGcode, ExtNc}
          THEN ret.kind = "ok" /\ ret.val = "gcode"
          ELSE IF ExtOfPath(mf.path) = ExtStl
          THEN ret.kind = "ok" /\ ret.val = "stl"
          ELSE ret.kind = "raise"
    /\ mf.dirname \in {None, OsDirname(mf.path)}
    /\ mf.basename \in {None, OsBasename(mf.path)}
    /\ mf.extension \in {None, ExtOfPath(mf.path)}

\* C10: the path was reassigned (the object was constructed on d/a.stl) and
\* the attributes read afterwards are those of the new path
C10_Witness ==
    /\ mf.path = JobNC
    /\ ret.op = "filetype"
    /\ ret.val = "gcode"
    /\ mf.extension = ExtNc
    /\ mf.dirname = <<>>

\* C5: a read during which a parser step raised the parser's own error ends
\* with a ModelFileError that carries the parser's message, whichever step
\* (load or parse) raised it.
C5_ParserErrorsWrapped ==
    (ret.op = "read" /\ \E i \in 1..Len(calls) : calls[i][3] = "parser_error") =>
        /\ ret.kind = "raise"
        /\ ret.val.exc = "ModelFileError"
        /\ \E i \in 1..Len(calls) :
              /\ calls[i][3] = "parser_error"
              /\ ret.val.msg = <<"Parsing error: ">> \o ParserMessage(calls[i][2])

(***************************************************************************)
(* Claims about write_stl                                                  *)
(***************************************************************************)
\* the write reached the point where it serializes the mesh
WroteMesh(m) ==
    /\ ret.op = "write_stl"
    /\ ret.kind = "ok" \/ ret.val = "IndexError"
    /\ mesh[m].loaded

\* text is one solid/endsolid envelope around exactly n facet blocks, block k
\* listing vertices 3k, 3k+1, 3k+2 and the normal normalOf(k)
IsStlOf(text, vertices, n, normalOf(_)) ==
    /\ Len(text) = 7 * n + 3
    /\ text[1] = <<0, "solid">>
    /\ text[Len(text)] = <<0, "endsolid">>
    /\ Cardinality({i \in 1..Len(text) : text[i][2] = "solid"}) = 1
    /\ Cardinality({i \in 1..Len(text) : text[i][2] = "endsolid"}) = 1
    /\ Cardinality({i \in 1..Len(text) : text[i][2] = "facet normal"}) = n
    /\ \A k \in 0..(n - 1) :
          /\ text[7 * k + 2][2] = "facet normal"
          /\ text[7 * k + 2][3] = Fmt6Vec(normalOf(k))
          /\ text[7 * k + 3][2] = "outer loop"
          /\ \A j \in 1..3 :
                /\ text[7 * k + 3 + j][2] = "vertex"
                /\ text[7 * k + 3 + j][3] = Fmt6Vec(vertices[3 * k + j])
          /\ text[7 * k + 7][2] = "endloop"
          /\ text[7 * k + 8][2] = "endfacet"

\* C3 (as amended): for a mesh with 3n vertices and 3n normals (one normal per
\* vertex, as the loaders and the tests supply them), write_stl emits a single
\* solid/endsolid envelope containing exactly n facet blocks in input order,
\* block k listing vertices 3k, 3k+1, 3k+2 and the normal stored at index 3k
\* (that of the facet's first vertex).
C3_FacetBlocks ==
    \A m \in ModelIds :
        (WroteMesh(m)
         /\ Len(mesh[m].vertices) % 3 = 0
         /\ Len(mesh[m].normals) = Len(mesh[m].vertices)) =>
            /\ ret.kind = "ok"
            /\ LET normalOf(k) == mesh[m].normals[3 * k + 1]
               IN  IsStlOf(disk[mf.path], mesh[m].vertices,
                           Len(mesh[m].vertices) \div 3, normalOf)

\* C3 as stated: for a mesh with 3n vertices and n normals (one per facet),
\* write_stl emits n facet blocks, block k with the normal of facet k.
C3_FacetBlocksPerFacetNormals ==
    \A m \in ModelIds :
        (WroteMesh(m)
         /\ Len(mesh[m].vertices) = 3 * Len(mesh[m].normals)) =>
            /\ ret.kind = "ok"
            /\ LET normalOf(k) == mesh[m].normals[k + 1]
               IN  IsStlOf(disk[mf.path], mesh[m].vertices,
                           Len(mesh[m].normals), normalOf)

\* C3: a mesh of two facets with distinct vertices and six normals, the
\* normals of the two facets differing, was written
C3_Witness ==
    /\ WroteMesh("m1")
    /\ ret.kind = "ok"
    /\ Len(mesh["m1"].vertices) = 6
    /\ Len(mesh["m1"].normals) = 6
    /\ mesh["m1"].normals[1] # mesh["m1"].normals[4]
    /\ mesh["m1"].normals[1] # mesh["m1"].normals[2]
    /\ mesh["m1"].vertices[1] # mesh["m1"].vertices[2]

(***************************************************************************)
(* The specifications of the scene                                         *)
(***************************************************************************)
InitAll ==
    /\ InitFiles
    /\ InitMeshes
    /\ InitScene
    /\ ret = NoCall

\* SpecMesh: a model's transforms and its export
NextMesh ==
    \/ \E g \in Geometries : LoadData("m1", g)
    \/ \E f \in {<<2, 1>>, <<0, 1>>} : Scale("m1", f)
    \/ Translate("m1", <<1, 2, 3>>)
    \/ \E a \in Axes : RotateRel("m1", 90, a)
    \/ \E a \in Axes, angle \in {0, 90} : RotateAbs("m1", angle, a)
    \/ \E m \in ModelIds : AddModel(m)
    \/ \E p \in {PartSTL, JobNC, NotesTxt} : ExportToFile(p, "None")
    \/ Finalize

SpecMesh == InitAll /\ [][NextMesh]_vars

\* SpecView: gestures and view switching
Coords == 0..MaxCoord

NextView ==
    \/ \E x \in Coords, y \in Coords : ButtonPress(x, y)
    \/ \E x \in Coords, y \in Coords, left \in BOOLEAN, middle \in BOOLEAN, right \in BOOLEAN :
          ButtonMotion(x, y, left, middle, right)
    \/ \E direction \in {-2, 0, 3} : WheelScroll(direction)
    \/ \E both \in BOOLEAN : ResetView(both)
    \/ \E value \in BOOLEAN : SetMode2d(value)
    \/ \E value \in BOOLEAN : SetModeOrtho(value)
    \/ \E azimuth \in {0, ROTATE_SPEED}, elevation \in {0, -ROTATE_SPEED} :
          RotateView(azimuth, elevation)

SpecView == InitAll /\ [][NextView]_vars

\* SpecDisplay: frames of a scene with actors
NextDisplay ==
    \/ \E m \in ModelIds : AddModel(m)
    \/ \E a \in SupportingActors : AddSupportingActor(a)
    \/ Clear
    \/ \E value \in BOOLEAN : SetMode2d(value)
    \/ \E value \in BOOLEAN : SetModeOrtho(value)
    \/ \E failAt \in 0..(5 + MaxActors) : Display(failAt)
    \/ \E azimuth \in {0, ROTATE_SPEED}, elevation \in {0, -ROTATE_SPEED} :
          RotateView(azimuth, elevation)

SpecDisplay == InitAll /\ [][NextDisplay]_vars

\* SpecDim: scaling a model and editing its dimensions
DimValues == {5000000, 10000000, 20000000}

NextDim ==
    \/ \E g \in {Triangle, TwoFacets} : LoadData("m1", g)
    \/ AddModel("m1")
    \/ \E f \in {<<2, 1>>, <<1, 2>>, <<0, 1>>} : ScaleModel(f)
    \/ \E dim \in {"width", "depth", "height"}, value \in DimValues \cup {0} :
          ChangeModelDimension(dim, value)

SpecDim == InitAll /\ [][NextDim]_vars

(***************************************************************************)
(* Claims about the modified flag and export                               *)
(***************************************************************************)
Transforms == {"scale", "translate", "rotate_rel", "rotate_abs"}

ExportFailed == ret.op = "export_to_file" /\ ret.kind = "raise"

C2_FailedExportKeepsState ==
    /\ [][(ret'.op = "export_to_file" /\ ret'.kind = "raise") =>
            /\ \A m \in ModelIds : mesh'[m].modified = mesh[m].modified
            /\ model' = model
            /\ actors' = actors
            /\ cur' = cur
            /\ views' = views]_vars
    /\ []((ret.op = "export_to_file" /\ ret.kind = "ok") => ~mesh[model].modified)

\* C2: the export of a modified model failed part-way through the write, and
\* the model is still modified and still the scene's model
C2_Witness ==
    /\ ExportFailed
    /\ ret.val = "IndexError"
    /\ model = "m1"
    /\ actors # <<>>
    /\ mesh["m1"].modified

(***************************************************************************)
(* Claims about the views                                                  *)
(***************************************************************************)
OtherView(v) == IF v = "ortho" THEN "persp" ELSE "ortho"

\* C6: current_view is always one of the two owned views; setting mode_2d
\* changes nothing but current_view; button_motion, wheel_scroll, rotate_view
\* and reset_view(both=False) leave the view that is not current untouched.
\* So while the 2D view is current the 3D view keeps its state, and the other
\* way round, unless both views are reset.
C6_ViewsIndependent ==
    /\ [](cur \in ViewIds)
    /\ [][ret'.op = "mode_2d=" =>
            /\ views' = views
            /\ UNCHANGED <<cursor, model, actors, mesh, fileVars, inited>>]_vars
    /\ [][(\/ ret'.op \in {"button_motion", "wheel_scroll", "rotate_view"}
           \/ (ret'.op = "reset_view" /\ ~ret'.val)) =>
            /\ cur' = cur
            /\ views'[OtherView(cur)] = views[OtherView(cur)]]_vars
    /\ [][~(ret'.op = "reset_view" /\ ret'.val) =>
            views'[OtherView(cur)] = views[OtherView(cur)]]_vars

\* C6: the 3D view was rotated, the scene went to the 2D view, panned there,
\* and is back on the 3D view, which still has its rotation
C6_Witness ==
    /\ ret.op = "mode_2d="
    /\ cur = "persp"
    /\ views["persp"].azimuth # 0
    /\ views["ortho"].x # 0

IsGesture(c) == c[2] \in {"rotate", "offset", "pan"}

\* what button_motion(x, y, left, middle, right) must have done in a step
MotionContract(x, y, left, middle, right) ==
    LET dx == x - cursor[1]
        dy == y - cursor[2]
        gestures == {i \in 1..Len(calls') : IsGesture(calls'[i])}
    IN  /\ cursor' = <<x, y>>
        /\ calls'[Len(calls')] = Invalidate
        /\ Cardinality(gestures) <= 1
        /\ \A i \in gestures : calls'[i][1] = cur
        /\ cur' = cur
        /\ views'[OtherView(cur)] = views[OtherView(cur)]
        /\ left =>
              calls' = << <<cur, "rotate", <<dx * ROTATE_SPEED, dy * ROTATE_SPEED>>>>,
                          Invalidate >>
        /\ (~left /\ middle /\ HasOffset(cur)) =>
              calls' = << <<cur, "offset", <<dx * PAN_SPEED, dy * PAN_SPEED>>>>,
                          Invalidate >>
        /\ (~left /\ middle /\ ~HasOffset(cur)) =>
              (calls' = <<Invalidate>> /\ views' = views)
        /\ (~left /\ ~middle /\ right) =>
              calls' = << <<cur, "pan", <<dx * PAN_SPEED, dy * PAN_SPEED>>>>,
                          Invalidate >>
        /\ (~left /\ ~middle /\ ~right) =>
              (calls' = <<Invalidate>> /\ views' = views)

\* C8: every button_motion takes its delta from the cursor position tracked
\* last (that of the latest press or motion), issues at most one gesture, to
\* the current view (left: rotate; else middle: offset if the view has it, else
\* nothing; else right: pan), and leaves the tracked cursor at the event's
\* position and the scene invalidated, whichever branch it took.
C8_ButtonMotion ==
    /\ [](ret.op \in {"button_press", "button_motion"} =>
            cursor = <<ret.val[1], ret.val[2]>>)
    /\ [][ret'.op = "button_motion" =>
            MotionContract(ret'.val[1], ret'.val[2], ret'.val[3], ret'.val[4],
                           ret'.val[5])]_vars

\* C8: a drag from a tracked position other than the origin rotated the 3D
\* view by the distance from that position
C8_Witness ==
    /\ ret.op = "button_motion"
    /\ cursor = <<0, 1>>
    /\ calls = << <<"persp", "rotate", <<-ROTATE_SPEED, ROTATE_SPEED>>>>, Invalidate >>
    /\ views["persp"].azimuth = -ROTATE_SPEED

(***************************************************************************)
(* Claims about display and about dimensions                               *)
(***************************************************************************)
\* C7: when display returns or propagates, every begin it issued on a view
\* has been followed by the end of that view: no view is left with a scope
\* open.
C7_BeginMatchedByEnd ==
    /\ ret.op = "display" =>
          \A v \in ViewIds : Count(calls, v, "begin") = Count(calls, v, "end")
    /\ \A v \in ViewIds : views[v].depth = 0

C11_ModelInActors == model # "None" => InActors(model)

\* C18: actors holds at most one model added through add_model, and that one
\* is the scene's current model; an earlier model is gone from actors once
\* another has been added.
C18_OnePrimaryModel ==
    /\ \A i \in 1..Len(actors) : actors[i] \in ModelIds => actors[i] = model
    /\ Cardinality({i \in 1..Len(actors) : actors[i] \in ModelIds}) <= 1

(***************************************************************************)
(* SpecMode: the projection toggles, rotate_view and wheel_scroll          *)
(***************************************************************************)
NextMode ==
    \/ \E value \in BOOLEAN : SetMode2d(value)
    \/ \E value \in BOOLEAN : SetModeOrtho(value)
    \/ GetModeOrtho
    \/ \E azimuth \in {0, ROTATE_SPEED}, elevation \in {0, -ROTATE_SPEED} :
          RotateView(azimuth, elevation)
    \/ \E direction \in {-2, 0, 3} : WheelScroll(direction)
    \/ \E both \in BOOLEAN : ResetView(both)

SpecMode == InitAll /\ [][NextMode]_vars

\* C12: mode_ortho reads true exactly when the current view supports the
\* ortho toggle and has it enabled, so it reads false in 2D mode; setting
\* mode_ortho in 2D mode changes no state of either view; and the 3D view's
\* ortho setting changes only by setting mode_ortho while the 3D view is
\* current, so it is still in force after a stay in 2D mode.
C12_ModeOrtho ==
    /\ [](ret.op = "mode_ortho" =>
            /\ ret.val = (SupportsOrtho(cur) /\ views[cur].ortho)
            /\ cur = "ortho" => ret.val = FALSE)
    /\ [][(ret'.op = "mode_ortho=" /\ cur = "ortho") =>
            (views' = views /\ cur' = cur)]_vars
    /\ [][(ret'.op = "mode_ortho=" /\ cur = "persp") =>
            (views'["persp"].ortho = ret'.val /\ views'["ortho"] = views["ortho"])]_vars
    /\ [][views'["persp"].ortho # views["persp"].ortho =>
            (ret'.op = "mode_ortho=" /\ cur = "persp")]_vars

\* C12: ortho was enabled on the 3D view, the 2D view has been current in
\* between (it was zoomed there), and back in 3D mode mode_ortho reads true
C12_Witness ==
    /\ ret.op = "mode_ortho"
    /\ ret.val = TRUE
    /\ cur = "persp"
    /\ views["ortho"].zoom # 0

\* C15: outside 2D mode rotate_view(azimuth, elevation) sets the current
\* view's azimuth and elevation to the given values, touches nothing else of
\* the views and invalidates the scene; in 2D mode it changes no state of
\* either view and does not invalidate.
C15_RotateView ==
    [][ret'.op = "rotate_view" =>
        /\ cur' = cur
        /\ cur = "persp" =>
              /\ views'["persp"] = [views["persp"] EXCEPT !.azimuth = ret'.val[1],
                                                          !.elevation = ret'.val[2]]
              /\ views'["ortho"] = views["ortho"]
              /\ calls' = <<Invalidate>>
        /\ cur = "ortho" => (views' = views /\ calls' = <<>>)]_vars

\* C15: rotate_view was called in 2D mode with non-zero angles after the 3D
\* view had been rotated
C15_Witness ==
    /\ ret.op = "rotate_view"
    /\ ret.val = <<ROTATE_SPEED, -ROTATE_SPEED>>
    /\ cur = "ortho"
    /\ calls = <<>>
    /\ views["persp"].azimuth = ROTATE_SPEED
    /\ views["persp"].elevation = 0

\* C16: wheel_scroll(direction) issues exactly one zoom gesture, to the
\* current view, with components (0, +30) for direction >= 0 and (0, -30) for
\* direction < 0 whatever its magnitude, then invalidates the scene; the other
\* view is not touched.
C16_WheelScroll ==
    [][ret'.op = "wheel_scroll" =>
        /\ calls' = << <<cur, "zoom", <<0, IF ret'.val >= 0 THEN 3000 ELSE -3000>>>>,
                       Invalidate >>
        /\ cur' = cur
        /\ views'[OtherView(cur)] = views[OtherView(cur)]]_vars

\* C16: a scroll with direction 0 zoomed the 2D view in by one step
C16_Witness ==
    /\ ret.op = "wheel_scroll"
    /\ ret.val = 0
    /\ cur = "ortho"
    /\ calls[1] = <<"ortho", "zoom", <<0, 3000>>>>
    /\ views["ortho"].zoom = 1
    /\ views["persp"].zoom = -1

(***************************************************************************)
(* Claims about the passes of display                                      *)
(***************************************************************************)
\* the position of the first end() of view_ortho among the calls, or one past
\* the last call when there is none
OverlayEnd ==
    LET ends == {i \in 1..Len(calls) : calls[i][1] = "ortho" /\ calls[i][2] = "end"}
    IN  IF ends = {} THEN Len(calls) + 1 ELSE SetMin(ends)

\* C13: in a display the calls from view_ortho.begin up to view_ortho.end, the
\* axis overlay pass, are all calls on view_ortho, whichever view is current.
C13_OverlayOnViewOrtho ==
    ret.op = "display" =>
        \A i \in 1..Len(calls) : i <= OverlayEnd => calls[i][1] = "ortho"

\* C14: a display that returns has, after the overlay pass, called begin and
\* display_transform on the current view, then display once for every entry
\* of actors in order, then end on the current view; every actor was handed
\* the scene's mode_ortho and mode_2d, and -elevation of the current view in
\* orthographic mode, the eye height otherwise (so the eye height whenever
\* the 2D view is current).
C14_ActorsDisplayed ==
    (ret.op = "display" /\ ret.kind = "ok") =>
        LET n == Len(actors)
        IN  /\ Len(calls) = 6 + n
            /\ calls[4] = <<cur, "begin", <<>>>>
            /\ calls[5] = <<cur, "display_transform", <<>>>>
            /\ calls[6 + n] = <<cur, "end", <<>>>>
            /\ Cardinality({i \in 1..Len(calls) : calls[i][2] = "display"}) = n
            /\ \A i \in 1..n :
                  /\ calls[5 + i][1] = actors[i]
                  /\ calls[5 + i][2] = "display"
                  /\ calls[5 + i][3][3] = ModeOrtho
                  /\ calls[5 + i][3][4] = Mode2d
                  /\ ModeOrtho => /\ calls[5 + i][3][1] = "elevation"
                                  /\ calls[5 + i][3][2] = -views[cur].elevation
                  /\ ~ModeOrtho => calls[5 + i][3][1] = "eye_height"
                  /\ cur = "ortho" => calls[5 + i][3][1] = "eye_height"

\* C14: a frame of two different actors was drawn by the 3D view in
\* orthographic mode, with a non-zero elevation
C14_Witness ==
    /\ ret.op = "display"
    /\ ret.kind = "ok"
    /\ cur = "persp"
    /\ views["persp"].ortho
    /\ views["persp"].elevation = -ROTATE_SPEED
    /\ Len(actors) = 2
    /\ actors[1] # actors[2]
    /\ calls[7] = <<actors[2], "display", <<"elevation", ROTATE_SPEED, TRUE, FALSE>>>>

(***************************************************************************)
(* SpecCenter: centering a model for display and for good                  *)
(***************************************************************************)
NextCenter ==
    \/ \E g \in {Triangle, Wedge} : LoadData("m1", g)
    \/ \E m \in ModelIds : AddModel(m)
    \/ ViewModelCenter
    \/ CenterModel
    \/ Translate("m1", <<1, 2, 3>>)
    \/ ExportToFile(PartSTL, "None")
    \/ GetModelModified

SpecCenter == InitAll /\ [][NextCenter]_vars

\* C17: view_model_center assigns the offsets computed from the bounding box
\* to the model's offset fields and changes nothing else of the model, its
\* modified flag included; center_model hands the same computed offsets to
\* translate, re-initializes the model and leaves it modified; model_modified
\* reads the flag of the scene's model.
C17_CenteringAndModified ==
    /\ [][ret'.op = "view_model_center" =>
            /\ mesh'[model].modified = mesh[model].modified
            /\ mesh' = [mesh EXCEPT ![model].offset = CenterOffsets(mesh[model])]]_vars
    /\ [][ret'.op = "center_model" =>
            /\ mesh'[model].modified
            /\ mesh'[model].initialized
            /\ mesh' = [mesh EXCEPT ![model] =
                          [MeshTranslate(mesh[model], CenterOffsets(mesh[model]))
                              EXCEPT !.initialized = TRUE]]]_vars
    /\ []((ret.op = "model_modified" /\ model # "None") =>
            ret.val = mesh[model].modified)

\* C17: a freshly loaded model lying off the origin was centered by
\* view_model_center and is still unmodified
C17_Witness ==
    /\ ret.op = "view_model_center"
    /\ model = "m1"
    /\ mesh["m1"].offset = <<-10000000, -5000000, -10000000>>
    /\ ~mesh["m1"].modified
    /\ ~mesh["m1"].initialized

(***************************************************************************)
(* Claims about a failed write                                             *)
(***************************************************************************)
\* the texts a write_stl that returned can have left in a file
WrittenTexts ==
    {StlText(mesh[m].vertices, mesh[m].normals) :
        m \in {k \in ModelIds :
                /\ mesh[k].loaded
                /\ \A i \in FacetStarts(mesh[k].vertices) :
                      NormalIndex(i) <= Len(mesh[k].normals)}}

\* C19: after a write_stl that raised, the file at path holds what it held
\* before the call (its initial content, or the text of an earlier write that
\* returned), and no file handle opened by write_stl is left open.
C19_FailedWriteKeepsFile ==
    (ret.op = "write_stl" /\ ret.kind = "raise") =>
        /\ handles = {}
        /\ disk[mf.path] \in {InitDisk[mf.path]} \cup WrittenTexts

(***************************************************************************)
(* SpecInit: render setup of the scene and its actors                      *)
(***************************************************************************)
NextInit ==
    \/ SceneInit
    \/ InitActors
    \/ \E m \in ModelIds : AddModel(m)
    \/ \E a \in SupportingActors : AddSupportingActor(a)
    \/ Clear
    \/ LoadData("m1", Triangle)
    \/ ScaleModel(<<2, 1>>)
    \/ \E failAt \in 0..(5 + MaxActors) : Display(failAt)

SpecInit == InitAll /\ [][NextInit]_vars

\* C20: once Scene.init has run, every actor that a display call invokes
\* display() on is initialized; and init_actors (alone or within init) calls
\* init only on actors it found uninitialized, once each, and leaves every
\* actor of actors initialized.
C20_DisplayedActorsInitialized ==
    /\ ("scene" \in inited /\ ret.op = "display") =>
          \A i \in 1..Len(calls) :
              calls[i][2] = "display" => Initialized(calls[i][1])
    /\ ret.op \in {"init_actors", "scene.init"} =>
          /\ \A i \in 1..Len(actors) : Initialized(actors[i])
          /\ \A i \in 1..Len(calls) :
                /\ calls[i][2] = "init"
                /\ calls[i][1] \notin ret.val
                /\ \A j \in 1..Len(calls) : calls[j][1] = calls[i][1] => j = i

====
